---- MODULE Spec2Model ----
(***************************************************************************)
(* Model of peer-backend (src/main.py): a Sanic application with a MongoDB *)
(* store (collections "users" and "chats"), an in-process session table    *)
(* (apikeys) and an in-process live-feed registry (open_feed_connections). *)
(*                                                                         *)
(* Scheduling.  The handlers are coroutines of one asyncio event loop and  *)
(* the pymongo calls are synchronous, so a handler runs without            *)
(* interruption up to its next await of a websocket operation.  Every      *)
(* action below is one such uninterrupted segment.                         *)
(***************************************************************************)
EXTENDS Integers, Sequences, FiniteSets, TLC

(* ---------------------------- bounds ----------------------------------- *)
MaxUsers  == 2      \* user ids (uuid4) the model hands out / clients name
MaxChats  == 1      \* chat ids (uuid4) the model hands out / clients name
MaxTokens == 3      \* api keys (secrets.token_urlsafe) handed out / named
MaxConns  == 2      \* websocket connections opened on /chatfeed/<id>
MaxPosts  == 2      \* /msg handlers suspended in a send at one time
MaxHistory == 2     \* messages stored in one chat
MaxAuths  == 2      \* auth packets a client sends on one connection
MaxPad    == 1      \* whitespace characters around a message content
MaxStored == 52     \* messages in a chat of the store that is fetched from
MaxInvitees == 2    \* users besides the owner in the store that is invited from

(* ------------------------ program constants ---------------------------- *)
MsgLimit  == 500    \* len(content) > 500
NameLimit == 20     \* len(username) > 20
DefaultLimit == 50  \* chatfetch: limit = 50 when no limit header is given

UserIds   == 1..MaxUsers
ChatIds   == 1..MaxChats
Tokens    == 1..MaxTokens
Conns     == 1..MaxConns
Posts     == 1..MaxPosts
Timestamps == {"t"}
ChatNames == {"General"}

\* usernames and discriminators are sequences of characters
AllowedChars == {"a", "b", "0", "1"}    \* of allowed_chars, those typed here
Discriminators == { <<"0", "0", "0", "1">> }
Usernames == { <<"a">>, <<"b">>, <<>>, <<"a", " ">>,
               [i \in 1..(NameLimit + 1) |-> "a"] }

\* f"{username}#{discriminator}"
Handle(username, discriminator) == username \o <<"#">> \o discriminator

\* the handles clients sign in with
Handles == { Handle(n, d) : n \in {<<"a">>, <<"b">>}, d \in Discriminators }

\* str.split("#"): the pieces between the "#" characters
RECURSIVE Split(_)
Split(s) ==
    IF \A i \in 1..Len(s) : s[i] # "#" THEN <<s>>
    ELSE LET i == CHOOSE k \in 1..Len(s) :
                      s[k] = "#" /\ \A j \in 1..(k - 1) : s[j] # "#"
         IN  <<SubSeq(s, 1, i - 1)>> \o Split(SubSeq(s, i + 1, Len(s)))

(***************************************************************************)
(* A header string is kept as its runs of characters: a sequence of        *)
(* <<kind, n>> with kind "ws" (whitespace) or "ch" (any other character),  *)
(* n >= 1, adjacent runs of different kinds.  <<>> is the empty string.    *)
(***************************************************************************)
Text(lead, body, trail) ==
    (IF lead  > 0 THEN << <<"ws", lead>>  >> ELSE <<>>) \o
    (IF body  > 0 THEN << <<"ch", body>>  >> ELSE <<>>) \o
    (IF trail > 0 THEN << <<"ws", trail>> >> ELSE <<>>)

\* the contents clients post: short, of the limit and one over it, bare and
\* padded with whitespace, and whitespace alone
Contents == { Text(MaxPad, 2, MaxPad), Text(0, MsgLimit, 0),
              Text(MaxPad, MsgLimit, MaxPad), Text(0, MsgLimit + 1, 0),
              Text(MaxPad, 0, 0) }

RECURSIVE StrLen(_)
StrLen(s) == IF s = <<>> THEN 0 ELSE Head(s)[2] + StrLen(Tail(s))

\* str.strip(): drops the leading and the trailing whitespace
Strip(s) ==
    LET l == IF s # <<>> /\ Head(s)[1] = "ws" THEN Tail(s) ELSE s
    IN  IF l # <<>> /\ l[Len(l)][1] = "ws" THEN SubSeq(l, 1, Len(l) - 1) ELSE l

(* ------------------------- list helpers -------------------------------- *)
InList(x, s) == \E i \in 1..Len(s) : s[i] = x

\* list.remove(x): removes the first occurrence
RECURSIVE ListRemove(_, _)
ListRemove(s, x) ==
    IF s = <<>> THEN <<>>
    ELSE IF Head(s) = x THEN Tail(s)
    ELSE <<Head(s)>> \o ListRemove(Tail(s), x)

IsPrefix(s, t) == Len(s) <= Len(t) /\ SubSeq(t, 1, Len(s)) = s

(* ----------------------------- state ----------------------------------- *)
VARIABLES
    users,      \* db["users"]: _id -> [username, discriminator, hasChats, chats]
    chats,      \* db["chats"]: _id -> [name, owner, members, message_history]
    apikeys,    \* apikeys: token -> [_id]
    open_feed_connections,
                \* chat id -> the dict user -> ws, in insertion order, as a
                \* sequence of [user, ws]
    conn,       \* the websocket connections: ws -> [state, chat, chatdata, sent]
                \* and where its handler is: pc "recv" (at the async for, or
                \* in a send that leads back to it) or "reject" (in the send
                \* of line 339, with ws.close() to come); as history,
                \* superseded: the number of messages the chat held when
                \* another websocket took the place of this one for a user
                \* and this one has completed no handshake since, else -1
    posts,      \* the /msg handlers suspended in a send: slot -> its locals
                \* (members: those of the chat document read at line 278)
                \* and, as history, the pushes made and the websockets that
                \* have been in the registry of the chat ever since the append
    last        \* the last request answered and its response

vars == <<users, chats, apikeys, open_feed_connections, conn, posts, last>>

None == [none |-> TRUE]

NoReq == [chat |-> 0, key |-> 0, timestamp |-> "t", content |-> <<>>]

IdlePost == [pc |-> "idle", req |-> NoReq, author |-> 0, members |-> <<>>,
             pos |-> 0, used |-> 0,
             resp |-> "none", entry |-> 0, pushes |-> <<>>, steady |-> {}]

NoConn == [state |-> "none", chat |-> 0, chatdata |-> None, sent |-> <<>>,
           auths |-> 0, pc |-> "recv", superseded |-> -1]

Response(op, key, user, chat, error) ==
    [op |-> op, key |-> key, user |-> user, chat |-> chat, content |-> <<>>,
     ws |-> 0, error |-> error]

\* the response of /msg, with the request it answers
MsgResponse(req, error) ==
    [op |-> "msg", key |-> req.key, user |-> 0, chat |-> req.chat,
     content |-> req.content, ws |-> 0, error |-> error]

\* what the chatfeed handler of websocket ws made of an auth packet
PacketOutcome(ws, key, chat, outcome) ==
    [op |-> "chatfeed", key |-> key, user |-> 0, chat |-> chat,
     content |-> <<>>, ws |-> ws, error |-> outcome]

\* the response of /chatfetch/<id>, with the request it answers; limit is
\* the limit header (<<>> when there is none)
FetchResponse(id, limit, error, messages) ==
    [op |-> "chatfetch", key |-> 0, user |-> 0, chat |-> id, content |-> <<>>,
     ws |-> 0, error |-> error, limit |-> limit, messages |-> messages]

Init ==
    /\ users = <<>>
    /\ chats = <<>>
    /\ apikeys = <<>>
    /\ open_feed_connections = [c \in {} |-> <<>>]
    /\ conn = [w \in Conns |-> NoConn]
    /\ posts = [h \in Posts |-> IdlePost]
    /\ last = Response("start", 0, 0, 0, "")

(* ---------------------- register_user, auth ---------------------------- *)
\* is_user_available: no user has this handle (the fresh id is never taken)
is_user_available(handle) ==
    \A i \in DOMAIN users : Handle(users[i].username, users[i].discriminator) # handle

\* the error register_user answers with, "" when it creates the account;
\* the display_name header is not sent
register_user_error(username, discriminator) ==
    LET e1 == IF Len(username) > NameLimit THEN "TooLong"
              ELSE IF username = <<>> THEN "UsernameRequired" ELSE ""
        e2 == IF ~is_user_available(Handle(username, discriminator))
              THEN "UsernameTaken" ELSE e1
    IN  IF \E i \in 1..Len(username) : username[i] \notin AllowedChars
        THEN "InvalidChars" ELSE e2

\* The id is a fresh uuid4, the next unused one here.  A new user has no
\* "chats" key.  The stored password hash is left to bcrypt (see auth).
register_user(username, discriminator) ==
    LET error == register_user_error(username, discriminator)
    IN  /\ IF error = ""
           THEN /\ Len(users) < MaxUsers
                /\ users' = Append(users, [username |-> username,
                                           discriminator |-> discriminator,
                                           hasChats |-> FALSE, chats |-> <<>>])
                /\ last' = Response("register_user", 0, Len(users) + 1, 0, "")
           ELSE /\ users' = users
                /\ last' = Response("register_user", 0, 0, 0, error)
        /\ UNCHANGED <<chats, apikeys, open_feed_connections, conn, posts>>

\* find_one({"username": ..., "discriminator": ...}): the id of the user, 0
\* for None
FindUser(username, discriminator) ==
    IF \E i \in DOMAIN users : users[i].username = username
                                /\ users[i].discriminator = discriminator
    THEN CHOOSE i \in DOMAIN users :
             /\ users[i].username = username
             /\ users[i].discriminator = discriminator
             /\ \A j \in 1..(i - 1) : ~(users[j].username = username
                                        /\ users[j].discriminator = discriminator)
    ELSE 0

\* handle is the username header, "name#discriminator"; pswd_check is the
\* result of bcrypt.checkpw on the pswd header.  A user that is not found
\* makes userdata["pswd"] raise TypeError.  The key is a fresh
\* secrets.token_urlsafe(40), the next unused one here; last_req (the clock)
\* is never read and is left out.
auth(handle, pswd_check) ==
    LET u == FindUser(Split(handle)[1], Split(handle)[2])
    IN  /\ IF u = 0
           THEN /\ apikeys' = apikeys
                /\ last' = Response("auth", 0, 0, 0, "TypeError")
           ELSE IF pswd_check
           THEN /\ Len(apikeys) < MaxTokens
                /\ apikeys' = Append(apikeys, [_id |-> u])
                /\ last' = Response("auth", Len(apikeys) + 1, u, 0, "")
           ELSE /\ apikeys' = apikeys
                /\ last' = Response("auth", 0, u, 0, "failure")
        /\ UNCHANGED <<users, chats, open_feed_connections, conn, posts>>

(* ----------------------------- create_chat ----------------------------- *)
\* apikeys[...] raises KeyError for an unknown key: an unhandled exception,
\* the request ends in a 500 response and nothing is written.
create_chat(name, key) ==
    IF key \notin DOMAIN apikeys
    THEN /\ last' = Response("create_chat", key, 0, 0, "KeyError")
         /\ UNCHANGED <<users, chats, apikeys, open_feed_connections, conn, posts>>
    ELSE LET owner == apikeys[key]._id
             _id   == Len(chats) + 1
         IN  /\ Len(chats) < MaxChats
             /\ users' = [users EXCEPT ![owner].hasChats = TRUE,
                                       ![owner].chats = Append(@, _id)]
             /\ chats' = Append(chats, [name |-> name, owner |-> owner,
                                        members |-> <<owner>>,
                                        message_history |-> <<>>])
             /\ last' = Response("create_chat", key, owner, _id, "")
             /\ UNCHANGED <<apikeys, open_feed_connections, conn, posts>>

(* ----------------------------- add_to_chat ----------------------------- *)
\* the error add_to_chat answers with, "" when it goes on to add the invitee
add_to_chat_error(key, invitee, chat) ==
    IF key \notin DOMAIN apikeys THEN "KeyError"
    ELSE IF chat \notin DOMAIN chats THEN "TypeError"
    ELSE LET inviter  == apikeys[key]._id
             chatdata == chats[chat]
         IN  IF (~InList(inviter, chatdata.members)) \/ (inviter # chatdata.owner)
                THEN "NoInvitePerms"
             ELSE IF InList(invitee, chatdata.members) THEN "UserAlreadyInChat"
             ELSE IF invitee \notin DOMAIN users THEN "UserNotFound"
             ELSE ""

\* a plausible slip: the members are written from the list as it was when
\* the chat was created, which loses an invitee stored since
add_to_chat_stale_members(key, invitee, chat) ==
    LET error == add_to_chat_error(key, invitee, chat)
    IN  /\ last' = Response("add_to_chat", key, invitee, chat, error)
        /\ IF error = ""
           THEN /\ users' = [users EXCEPT ![invitee].hasChats = TRUE,
                                          ![invitee].chats = Append(@, chat)]
                /\ chats' = [chats EXCEPT ![chat].members =
                                 <<chats[chat].owner, invitee>>]
           ELSE UNCHANGED <<users, chats>>
        /\ UNCHANGED <<apikeys, open_feed_connections, conn, posts>>

add_to_chat(key, invitee, chat) ==
    LET error == add_to_chat_error(key, invitee, chat)
    IN  /\ last' = Response("add_to_chat", key, invitee, chat, error)
        /\ IF error = ""
           THEN /\ users' = [users EXCEPT ![invitee].hasChats = TRUE,
                                          ![invitee].chats = Append(@, chat)]
                /\ chats' = [chats EXCEPT ![chat].members = Append(@, invitee)]
           ELSE UNCHANGED <<users, chats>>
        /\ UNCHANGED <<apikeys, open_feed_connections, conn, posts>>

(* --------------------------- remove_from_chat -------------------------- *)
\* userdata["chats"] is evaluated first: TypeError when the removee does
\* not exist, KeyError when the removee has no "chats" key yet.
remove_from_chat_error(key, removee, chat) ==
    IF key \notin DOMAIN apikeys THEN "KeyError"
    ELSE IF removee \notin DOMAIN users THEN "TypeError"
    ELSE IF ~users[removee].hasChats THEN "KeyError"
    ELSE IF ~InList(chat, users[removee].chats) THEN "UserNotInChat"
    ELSE IF chat \notin DOMAIN chats THEN "TypeError"
    ELSE IF ~InList(removee, chats[chat].members) THEN "UserNotInChat"
    ELSE IF apikeys[key]._id # chats[chat].owner THEN "NoRemovePerms"
    ELSE ""

\* a plausible slip: only the chat document is written back
remove_from_chat_chat_only(key, removee, chat) ==
    LET error == remove_from_chat_error(key, removee, chat)
    IN  /\ last' = Response("remove_from_chat", key, removee, chat, error)
        /\ IF error = ""
           THEN /\ users' = users
                /\ chats' = [chats EXCEPT ![chat].members = ListRemove(@, removee)]
           ELSE UNCHANGED <<users, chats>>
        /\ UNCHANGED <<apikeys, open_feed_connections, conn, posts>>

remove_from_chat(key, removee, chat) ==
    LET error == remove_from_chat_error(key, removee, chat)
    IN  /\ last' = Response("remove_from_chat", key, removee, chat, error)
        /\ IF error = ""
           THEN /\ users' = [users EXCEPT ![removee].chats = ListRemove(@, chat)]
                /\ chats' = [chats EXCEPT ![chat].members = ListRemove(@, removee)]
           ELSE UNCHANGED <<users, chats>>
        /\ UNCHANGED <<apikeys, open_feed_connections, conn, posts>>

(* --------------------------------- msg --------------------------------- *)
\* a plausible slip: the membership test is left out
msg_error_anyone(key, chat, content) ==
    IF key \notin DOMAIN apikeys THEN "KeyError"
    ELSE IF chat \notin DOMAIN chats THEN "TypeError"
    ELSE IF StrLen(content) > MsgLimit \/ Strip(content) = <<>>
         THEN "IllegalMessageContent"
    ELSE ""

\* the error msg answers with, "" when it goes on to store the message
msg_error(key, chat, content) ==
    IF key \notin DOMAIN apikeys THEN "KeyError"
    ELSE IF chat \notin DOMAIN chats THEN "TypeError"
    ELSE IF ~InList(apikeys[key]._id, chats[chat].members) THEN "UserNotInChat"
    ELSE IF StrLen(content) > MsgLimit \/ Strip(content) = <<>>
         THEN "IllegalMessageContent"
    ELSE ""

\* a plausible slip: the new message is put in front (newest first)
PrependMessage(history, m) == <<m>> \o history

\* chat["message_history"].append(...), written back by update_one
AppendMessage(history, m) == Append(history, m)

\* the entry appended to message_history
StoredMessage(author, timestamp, content) ==
    [author |-> author, content |-> Strip(content), timestamp |-> timestamp]

\* the livemsg packet; entry is the place of its message in message_history
\* (history only, not part of the packet)
LiveMsg(entry, author, timestamp, content) ==
    [cmd |-> "livemsg", author |-> author,
     username |-> users[author].username,
     discriminator |-> users[author].discriminator,
     timestamp |-> timestamp, content |-> content, entry |-> entry]

\* ws.send raises on a websocket that is closed
SendOk(cn, ws) == cn[ws].state = "open"

\* One round of "for client in open_feed_connections[chat]": the iterator's
\* next() (RuntimeError if the dict changed size since the loop began, end
\* of loop when exhausted), then the send to the websocket the dict holds
\* for that client now; an exception of the send is caught and printed.
\* The handler is then suspended in the send, whether the send goes through
\* or raises (a transport that is lost raises out of the await).
FanoutRound(p, cn) ==
    LET d == open_feed_connections[p.req.chat]
    IN  IF Len(d) # p.used
        THEN [post |-> [p EXCEPT !.pc = "done", !.resp = "RuntimeError"], conn |-> cn]
        ELSE IF p.pos >= Len(d)
        THEN [post |-> [p EXCEPT !.pc = "done", !.resp = ""], conn |-> cn]
        ELSE LET ws == d[p.pos + 1].ws
                 ok == SendOk(cn, ws)
                 packet == LiveMsg(p.entry, p.author, p.req.timestamp, p.req.content)
             IN  [post |-> [p EXCEPT !.pc = "fanout", !.pos = @ + 1,
                                     !.pushes = Append(@, [ws |-> ws, ok |-> ok])],
                  conn |-> IF ok THEN [cn EXCEPT ![ws].sent = Append(@, packet)]
                                 ELSE cn]

\* the websockets that are values of the registry of chat
RegisteredFor(reg, chat) ==
    IF chat \in DOMAIN reg THEN { reg[chat][i].ws : i \in 1..Len(reg[chat]) } ELSE {}

\* the slot a handler that gets suspended takes
FreePost(h) == posts[h].pc = "idle" /\ \A g \in Posts : g < h => posts[g].pc # "idle"

\* a handler is suspended in a send (it keeps its slot) or has returned (its
\* response is recorded and the slot is free again)
Settle(h, r) ==
    IF r.post.pc = "done"
    THEN /\ posts' = [posts EXCEPT ![h] = IdlePost]
         /\ last' = MsgResponse(r.post.req, r.post.resp)
    ELSE /\ posts' = [posts EXCEPT ![h] = r.post]
         /\ last' = last

\* /msg up to its first suspension
msg(h, key, chat, timestamp, content) ==
    LET error == msg_error(key, chat, content)
        req   == [chat |-> chat, key |-> key, timestamp |-> timestamp,
                  content |-> content]
    IN  /\ FreePost(h)
        /\ IF error # ""
           THEN /\ last' = MsgResponse(req, error)
                /\ UNCHANGED <<chats, conn, posts>>
           ELSE LET author == apikeys[key]._id
                    p == [IdlePost EXCEPT !.req = req, !.author = author,
                              !.members = chats[chat].members,
                              !.entry = Len(chats[chat].message_history) + 1,
                              !.used = IF chat \in DOMAIN open_feed_connections
                                       THEN Len(open_feed_connections[chat]) ELSE 0,
                              !.steady = RegisteredFor(open_feed_connections, chat)]
                    r == IF chat \in DOMAIN open_feed_connections
                         THEN FanoutRound(p, conn)
                         ELSE [post |-> [p EXCEPT !.pc = "done", !.resp = ""],
                               conn |-> conn]
                IN  /\ Len(chats[chat].message_history) < MaxHistory
                    /\ chats' = [chats EXCEPT ![chat].message_history =
                            AppendMessage(@, StoredMessage(author, timestamp, content))]
                    /\ Settle(h, r)
                    /\ conn' = r.conn
        /\ UNCHANGED <<users, apikeys, open_feed_connections>>

\* /msg resumed after a send
msg_resume(h) ==
    /\ posts[h].pc = "fanout"
    /\ LET r == FanoutRound(posts[h], conn)
       IN  /\ Settle(h, r)
           /\ conn' = r.conn
    /\ UNCHANGED <<users, chats, apikeys, open_feed_connections>>

(* ------------------------------ chatfeed ------------------------------- *)
AuthChallenge == [cmd |-> "auth"]
ErrorPacket(e) == [error |-> e]

\* the websocket the next connection gets
FreeConn(w) == conn[w].state = "none" /\ \A v \in Conns : v < w => conn[v].state # "none"

\* a client connects to /chatfeed/<id>: the chat document is read once, here
chatfeed_connect(w, id) ==
    /\ FreeConn(w)
    /\ conn' = [conn EXCEPT ![w] =
           [state |-> "open", chat |-> id,
            chatdata |-> IF id \in DOMAIN chats
                         THEN [members |-> chats[id].members] ELSE None,
            sent |-> <<AuthChallenge>>, auths |-> 0, pc |-> "recv",
            superseded |-> -1]]
    /\ UNCHANGED <<users, chats, apikeys, open_feed_connections, posts, last>>

\* what the handler does with an auth packet carrying key
chatfeed_auth_outcome(w, key) ==
    IF key \notin DOMAIN apikeys THEN "KeyError"
    ELSE IF conn[w].chatdata = None THEN "TypeError"
    ELSE IF ~InList(apikeys[key]._id, conn[w].chatdata.members) THEN "UserNotInChat"
    ELSE ""

\* open_feed_connections[id][user] = ws
Register(reg, id, user, ws) ==
    LET d == IF id \in DOMAIN reg THEN reg[id] ELSE <<>>
        e == [user |-> user, ws |-> ws]
        n == IF \E i \in 1..Len(d) : d[i].user = user
             THEN [i \in 1..Len(d) |-> IF d[i].user = user THEN e ELSE d[i]]
             ELSE Append(d, e)
    IN  [c \in DOMAIN reg \cup {id} |-> IF c = id THEN n ELSE reg[c]]

\* the websockets other than ws that the registry of chat id holds for user
Superseded(reg, id, user, ws) ==
    IF id \in DOMAIN reg
    THEN { reg[id][i].ws : i \in { j \in 1..Len(reg[id]) :
                                     reg[id][j].user = user /\ reg[id][j].ws # ws } }
    ELSE {}

\* the client's auth packet is taken by the handler of an open connection,
\* up to the handler's next suspension.  A user who is not in chatdata's
\* members is sent the error packet, and the handler is suspended in that
\* send with the websocket still open.  An exception leaves the handler,
\* and the framework closes the websocket.
chatfeed_auth(w, key) ==
    /\ conn[w].state = "open"
    /\ conn[w].pc = "recv"
    /\ conn[w].auths < MaxAuths
    /\ LET outcome == chatfeed_auth_outcome(w, key)
           id == conn[w].chat
       IN  IF outcome = ""
           THEN /\ open_feed_connections' =
                       Register(open_feed_connections, id, apikeys[key]._id, w)
                /\ conn' = [v \in Conns |->
                       IF v = w
                       THEN [conn[w] EXCEPT !.sent = Append(@, ErrorPacket("")),
                                            !.auths = @ + 1, !.superseded = -1]
                       ELSE IF v \in Superseded(open_feed_connections, id,
                                                apikeys[key]._id, w)
                       THEN [conn[v] EXCEPT !.superseded =
                                Len(chats[id].message_history)]
                       ELSE conn[v]]
                /\ posts' = [h \in Posts |->
                       IF posts[h].pc = "fanout" /\ posts[h].req.chat = id
                       THEN [posts[h] EXCEPT !.steady =
                                @ \cap RegisteredFor(open_feed_connections', id)]
                       ELSE posts[h]]
           ELSE IF outcome = "UserNotInChat"
           THEN /\ conn' = [conn EXCEPT ![w].sent = Append(@, ErrorPacket(outcome)),
                                        ![w].pc = "reject", ![w].auths = @ + 1]
                /\ UNCHANGED <<open_feed_connections, posts>>
           ELSE /\ conn' = [conn EXCEPT ![w].state = "closed", ![w].auths = @ + 1]
                /\ UNCHANGED <<open_feed_connections, posts>>
    /\ last' = PacketOutcome(w, key, conn[w].chat, chatfeed_auth_outcome(w, key))
    /\ UNCHANGED <<users, chats, apikeys>>

\* the handler resumes after the send of the error packet: ws.close()
chatfeed_reject_close(w) ==
    /\ conn[w].state = "open"
    /\ conn[w].pc = "reject"
    /\ conn' = [conn EXCEPT ![w].state = "closed", ![w].pc = "recv"]
    /\ UNCHANGED <<users, chats, apikeys, open_feed_connections, posts, last>>

\* the transport closes (the client disconnects, or a packet that is not
\* JSON with a "cmd" raises in the handler): the handler ends
chatfeed_close(w) ==
    /\ conn[w].state = "open"
    /\ conn' = [conn EXCEPT ![w].state = "closed", ![w].pc = "recv"]
    /\ UNCHANGED <<users, chats, apikeys, open_feed_connections, posts, last>>

(* ------------------------------ chatfetch ------------------------------ *)
\* the limit headers clients send: none, or one (a header value is a str)
LimitHeaders == { <<>>, <<"1">> }

\* list[:n] for an int n >= 0
SliceTo(list, n) == SubSeq(list, 1, IF n < Len(list) THEN n ELSE Len(list))

\* limit is the header value when there is one, and then the slice
\* [:limit] raises TypeError (slice indices must be integers)
chatfetch(id, limit) ==
    /\ last' = IF id \notin DOMAIN chats
               THEN FetchResponse(id, limit, "ChatNotFound", <<>>)
               ELSE IF limit # <<>>
               THEN FetchResponse(id, limit, "TypeError", <<>>)
               ELSE FetchResponse(id, limit, "",
                        SliceTo(chats[id].message_history, DefaultLimit))
    /\ UNCHANGED <<users, chats, apikeys, open_feed_connections, conn, posts>>

(* ------------------------------ the system ----------------------------- *)
\* The request surface over the store and the sessions, from an empty
\* database.  No client opens a feed, so /msg never has a send to wait in.
Next ==
    \/ \E n \in Usernames, d \in Discriminators : register_user(n, d)
    \/ \E hd \in Handles, ok \in BOOLEAN : auth(hd, ok)
    \/ \E n \in ChatNames, k \in Tokens : create_chat(n, k)
    \/ \E k \in Tokens, u \in UserIds, c \in ChatIds : add_to_chat(k, u, c)
    \/ \E k \in Tokens, u \in UserIds, c \in ChatIds : remove_from_chat(k, u, c)
    \/ \E h \in Posts, k \in Tokens, c \in ChatIds, t \in Timestamps, x \in Contents :
           msg(h, k, c, t, x)

Spec == Init /\ [][Next]_vars

\* The live feed, from the states the request surface reaches once two users
\* are registered and signed in and the first has created the chat, with or
\* without the second as a member.  Key MaxTokens is never issued here.
InitFeed ==
    /\ \E m \in {<<1>>, <<1, 2>>} :
         /\ chats = << [name |-> "General", owner |-> 1, members |-> m,
                         message_history |-> <<>>] >>
         /\ users = [u \in 1..2 |->
                [username |-> IF u = 1 THEN <<"a">> ELSE <<"b">>,
                 discriminator |-> <<"0", "0", "0", "1">>,
                 hasChats |-> InList(u, m),
                 chats |-> IF InList(u, m) THEN <<1>> ELSE <<>>]]
    /\ apikeys = << [_id |-> 1], [_id |-> 2] >>
    /\ open_feed_connections = [c \in {} |-> <<>>]
    /\ conn = [w \in Conns |-> NoConn]
    /\ posts = [h \in Posts |-> IdlePost]
    /\ last = Response("start", 0, 0, 0, "")

\* the content the clients of the feed post
FeedContents == { Text(MaxPad, 2, MaxPad) }

NextFeed ==
    \/ \E h \in Posts, k \in Tokens, c \in ChatIds, t \in Timestamps, x \in FeedContents :
           msg(h, k, c, t, x)
    \/ \E h \in Posts : msg_resume(h)
    \/ \E w \in Conns, c \in ChatIds : chatfeed_connect(w, c)
    \/ \E w \in Conns, k \in Tokens : chatfeed_auth(w, k)
    \/ \E w \in Conns : chatfeed_reject_close(w)
    \/ \E w \in Conns : chatfeed_close(w)

SpecFeed == InitFeed /\ [][NextFeed]_vars

\* Fetching, from the states the request surface reaches once the chat of
\* InitFeed holds n messages of its owner, the i-th of i characters.
InitFetch ==
    /\ \E n \in 0..MaxStored :
         chats = << [name |-> "General", owner |-> 1, members |-> <<1, 2>>,
                     message_history |->
                        [i \in 1..n |-> StoredMessage(1, "t", Text(0, i, 0))]] >>
    /\ users = [u \in 1..2 |->
           [username |-> IF u = 1 THEN <<"a">> ELSE <<"b">>,
            discriminator |-> <<"0", "0", "0", "1">>,
            hasChats |-> TRUE, chats |-> <<1>>]]
    /\ apikeys = << [_id |-> 1], [_id |-> 2] >>
    /\ open_feed_connections = [c \in {} |-> <<>>]
    /\ conn = [w \in Conns |-> NoConn]
    /\ posts = [h \in Posts |-> IdlePost]
    /\ last = Response("start", 0, 0, 0, "")

NextFetch ==
    \/ \E h \in Posts, k \in Tokens, c \in ChatIds, t \in Timestamps, x \in FeedContents :
           msg(h, k, c, t, x)
    \/ \E id \in 1..(MaxChats + 1), limit \in LimitHeaders : chatfetch(id, limit)

SpecFetch == InitFetch /\ [][NextFetch]_vars

\* the keys in the apikeys of InitFeed
IssuedKeys == 1..2

\* The live feed while the owner changes the membership of the chat, from
\* the states of InitFeed; one post under way at a time, the clients post
\* and sign in to the feed with the keys that are issued.
NextMembers ==
    \/ \E u \in UserIds, c \in ChatIds : add_to_chat(1, u, c)
    \/ \E u \in UserIds, c \in ChatIds : remove_from_chat(1, u, c)
    \/ \E k \in IssuedKeys, c \in ChatIds, t \in Timestamps, x \in FeedContents :
           msg(1, k, c, t, x)
    \/ \E h \in Posts : msg_resume(h)
    \/ \E w \in Conns, c \in ChatIds : chatfeed_connect(w, c)
    \/ \E w \in Conns, k \in IssuedKeys : chatfeed_auth(w, k)
    \/ \E w \in Conns : chatfeed_reject_close(w)

SpecMembers == InitFeed /\ [][NextMembers]_vars

\* Invitations, from the states the request surface reaches once
\* 1 + MaxInvitees users are registered (user u named "a" u times), the
\* first two are signed in and the first has created the chat.
InitInvite ==
    /\ users = [u \in 1..(1 + MaxInvitees) |->
           [username |-> [i \in 1..u |-> "a"],
            discriminator |-> <<"0", "0", "0", "1">>,
            hasChats |-> (u = 1),
            chats |-> IF u = 1 THEN <<1>> ELSE <<>>]]
    /\ chats = << [name |-> "General", owner |-> 1, members |-> <<1>>,
                   message_history |-> <<>>] >>
    /\ apikeys = << [_id |-> 1], [_id |-> 2] >>
    /\ open_feed_connections = [c \in {} |-> <<>>]
    /\ conn = [w \in Conns |-> NoConn]
    /\ posts = [h \in Posts |-> IdlePost]
    /\ last = Response("start", 0, 0, 0, "")

\* the user ids clients name in invitations: those registered and one more
InviteUsers == 1..(2 + MaxInvitees)

NextInvite ==
    \/ \E k \in Tokens, u \in InviteUsers, c \in ChatIds : add_to_chat(k, u, c)
    \/ \E k \in Tokens, u \in InviteUsers, c \in ChatIds : remove_from_chat(k, u, c)

SpecInvite == InitInvite /\ [][NextInvite]_vars

(* ============================ properties =============================== *)
IsLiveMsg(f) == "cmd" \in DOMAIN f /\ f.cmd = "livemsg"

\* the places of the livemsg packets among the packets sent on websocket w
LivePlaces(w) == { i \in 1..Len(conn[w].sent) : IsLiveMsg(conn[w].sent[i]) }

\* websocket w is a value of the registry
Registered(reg, w) ==
    \E c \in DOMAIN reg : \E i \in 1..Len(reg[c]) : reg[c][i].ws = w

\* key is a session of a user who is, resp. is not, in the members of chat
MemberKey(key, chat) ==
    /\ key \in DOMAIN apikeys
    /\ chat \in DOMAIN chats
    /\ InList(apikeys[key]._id, chats[chat].members)

NonMemberKey(key, chat) ==
    /\ key \in DOMAIN apikeys
    /\ chat \in DOMAIN chats
    /\ ~InList(apikeys[key]._id, chats[chat].members)

\* this step is a /msg request answered before any suspension
MsgAnsweredAtOnce == last' # last /\ last'.op = "msg" /\ posts' = posts

\* in this step the suspended handler h returns
MsgReturns(h) == posts[h].pc = "fanout" /\ posts'[h].pc = "idle"

\* in this step the handler of websocket w deals with an auth packet
AuthPacketOn(w) == conn'[w].auths = conn[w].auths + 1

(* C1: on every websocket the livemsg packets of a chat arrive in the order *)
(* in which their messages were appended to message_history (the order in  *)
(* which the posts entered msg), whatever the interleaving of the handlers *)
(* at their sends.                                                         *)
C1_DeliveryInAppendOrder ==
    \A w \in Conns : \A i, j \in LivePlaces(w) :
        conn[w].sent[i].entry < conn[w].sent[j].entry =>
            \E k \in LivePlaces(w) :
                k < j /\ conn[w].sent[k].entry = conn[w].sent[i].entry

(* C2: the owner of every chat is in the members of that chat, also after  *)
(* remove_from_chat by the owner with the owner as removee.                *)
C2_OwnerIsMember ==
    \A c \in DOMAIN chats : InList(chats[c].owner, chats[c].members)

(* C3: between requests, chat c is in the chats list of user u exactly     *)
(* when u is in the members list of c.                                     *)
C3_MembershipSymmetric ==
    \A u \in DOMAIN users : \A c \in ChatIds :
        InList(c, users[u].chats) <=>
            (c \in DOMAIN chats /\ InList(u, chats[c].members))

\* a user was added to a chat and removed again; the chat still has a member
C3_Witness ==
    /\ last.op = "remove_from_chat" /\ last.error = ""
    /\ users[last.user].hasChats /\ users[last.user].chats = <<>>
    /\ chats[last.chat].members # <<>>

(* C4: every step leaves each message_history an extension of what it was: *)
(* messages are only appended at the end, also while several posts to the  *)
(* chat are under way.                                                     *)
C4_HistoryAppendOnly ==
    [][\A c \in DOMAIN chats :
          IsPrefix(chats[c].message_history, chats'[c].message_history)]_vars

\* two posts to one chat are under way, both stored
C4_Witness ==
    /\ \A h \in {1, 2} : posts[h].pc = "fanout" /\ posts[h].req.chat = 1
    /\ Len(chats[1].message_history) = 2

(* C5: a fan-out in which a push failed still attempts the push to every *)
(* connection registered for the chat, and its post is answered with       *)
(* success.                                                                *)
C5_FailedPushIsolated ==
    [][\A h \in Posts :
          (MsgReturns(h)
             /\ \E i \in 1..Len(posts[h].pushes) : ~posts[h].pushes[i].ok) =>
          /\ last'.op = "msg"
          /\ last'.error = ""
          /\ Len(posts[h].pushes) = Len(open_feed_connections[posts[h].req.chat])]_vars

(* C6: a post by a signed-in user who is not in the members of the chat is *)
(* answered UserNotInChat at once, with message_history and every          *)
(* websocket untouched; no such post ever gets to the fan-out.             *)
C6_NonMemberPostRejected ==
    [][/\ (MsgAnsweredAtOnce /\ NonMemberKey(last'.key, last'.chat)) =>
              /\ last'.error = "UserNotInChat"
              /\ chats' = chats
              /\ conn' = conn
       /\ \A h \in Posts : (posts[h].pc = "idle" /\ posts'[h].pc # "idle") =>
              ~NonMemberKey(posts'[h].req.key, posts'[h].req.chat)
       /\ (chats' # chats /\ last'.op = "msg" /\ posts' = posts) =>
              ~NonMemberKey(last'.key, last'.chat)]_vars

\* a non-member was turned away while a connection was registered for the chat
C6_Witness ==
    /\ last.op = "msg" /\ last.error = "UserNotInChat"
    /\ last.chat \in DOMAIN open_feed_connections
    /\ \E i \in 1..Len(open_feed_connections[last.chat]) :
           conn[open_feed_connections[last.chat][i].ws].state = "open"

(* C7: a handshake of user u that succeeds on websocket w makes w the one *)
(* entry of u in the registry of the chat, and a websocket whose place     *)
(* another websocket has taken is sent no livemsg packet of a message      *)
(* posted afterwards.                                                      *)
C7_SecondConnectionSupersedes ==
    [][\A w \in Conns :
          /\ (AuthPacketOn(w) /\ last'.ws = w /\ last'.error = "") =>
                LET new == open_feed_connections'[conn[w].chat]
                    u   == apikeys[last'.key]._id
                IN  /\ \E i \in 1..Len(new) : new[i] = [user |-> u, ws |-> w]
                    /\ \A i, j \in 1..Len(new) : new[i].user = new[j].user => i = j
          /\ (Len(conn'[w].sent) > Len(conn[w].sent)
                /\ IsLiveMsg(conn'[w].sent[Len(conn'[w].sent)])) =>
                ~(conn[w].superseded >= 0
                    /\ conn'[w].sent[Len(conn'[w].sent)].entry > conn[w].superseded)]_vars

(* C8: a post by a member succeeds exactly when the trimmed content has    *)
(* between 1 and 500 characters, and fails with IllegalMessageContent      *)
(* otherwise.                                                              *)
C8_TrimmedLengthDecides ==
    [][(MsgAnsweredAtOnce /\ MemberKey(last'.key, last'.chat)) =>
          LET n == StrLen(Strip(last'.content))
          IN  IF 1 <= n /\ n <= MsgLimit
              THEN last'.error = ""
              ELSE last'.error = "IllegalMessageContent"]_vars

(* C9: add_to_chat changes membership only for the owner inviting a user   *)
(* who is not a member; a member who is not the owner is answered          *)
(* NoInvitePerms, the owner inviting a member is answered                  *)
(* UserAlreadyInChat, and both leave members and chats lists as they were. *)
C9_InviteAuthorization ==
    [][(last' # last /\ last'.op = "add_to_chat"
          /\ last'.key \in DOMAIN apikeys /\ last'.chat \in DOMAIN chats) =>
          LET inviter == apikeys[last'.key]._id
              chat    == chats[last'.chat]
          IN  /\ (InList(inviter, chat.members) /\ inviter # chat.owner) =>
                    (last'.error = "NoInvitePerms" /\ chats' = chats /\ users' = users)
              /\ (inviter = chat.owner /\ InList(last'.user, chat.members)) =>
                    (last'.error = "UserAlreadyInChat" /\ chats' = chats
                        /\ users' = users)
              /\ (chats' # chats \/ users' # users) =>
                    (inviter = chat.owner /\ ~InList(last'.user, chat.members))]_vars

(* C10: an auth packet whose key is not in apikeys, or is the key of a user *)
(* who is not a member of the chat, is answered with an error packet on    *)
(* that websocket, which is then closed (the handler goes on to close it   *)
(* and takes no packet before) and is not put in the registry.             *)
C10_RejectedHandshake ==
    [][\A w \in Conns :
          (AuthPacketOn(w) /\ last'.ws = w
             /\ (last'.key \notin DOMAIN apikeys
                   \/ NonMemberKey(last'.key, conn[w].chat))) =>
          /\ conn'[w].state = "closed" \/ conn'[w].pc = "reject"
          /\ Len(conn'[w].sent) = Len(conn[w].sent) + 1
          /\ "error" \in DOMAIN conn'[w].sent[Len(conn'[w].sent)]
          /\ conn'[w].sent[Len(conn'[w].sent)].error # ""
          /\ open_feed_connections' = open_feed_connections]_vars

(* C11: a post whose author key is not in apikeys is answered with the    *)
(* error InvalidSession in the response body, and leaves message_history   *)
(* and every websocket as they were.                                       *)
C11_UnknownAuthorKey ==
    [][(MsgAnsweredAtOnce /\ last'.key \notin DOMAIN apikeys) =>
          /\ last'.error = "InvalidSession"
          /\ chats' = chats
          /\ conn' = conn]_vars

\* the n most recently appended messages of a history, oldest first
Latest(history, n) ==
    SubSeq(history, IF Len(history) > n THEN Len(history) - n + 1 ELSE 1,
           Len(history))

(* C12: /chatfetch/<id> of an existing chat with no limit header answers   *)
(* with the latest messages: all of message_history when it holds at most  *)
(* 50 messages, the 50 most recently appended ones when it holds more.     *)
C12_FetchLatest ==
    [][(last' # last /\ last'.op = "chatfetch" /\ last'.chat \in DOMAIN chats
          /\ last'.limit = <<>>) =>
          /\ last'.error = ""
          /\ last'.messages = Latest(chats[last'.chat].message_history,
                                     DefaultLimit)]_vars

\* the pushes handler h has attempted to websocket w
PushesTo(h, w) == { i \in 1..Len(posts[h].pushes) : posts[h].pushes[i].ws = w }

(* C13: when a post returns success after its fan-out, every websocket     *)
(* that has been in the registry of the chat from the append of the        *)
(* message to the end of the fan-out has had exactly one push of the       *)
(* message attempted, whatever other posts and handshakes ran in between.  *)
C13_PushedExactlyOnce ==
    [][\A h \in Posts : (MsgReturns(h) /\ last'.error = "") =>
          \A w \in posts[h].steady : Cardinality(PushesTo(h, w)) = 1]_vars

(* C14: a post that has appended its message is answered with success,    *)
(* whatever happens in its fan-out: also when a user who had no connection *)
(* in the registry of the chat completes a handshake between two pushes.   *)
C14_AppendedPostSucceeds ==
    [][/\ \A h \in Posts : MsgReturns(h) => last'.error = ""
       /\ (MsgAnsweredAtOnce /\ chats' # chats) => last'.error = ""]_vars

(* C15: a push that fails in a fan-out takes its websocket out of the      *)
(* registry of the chat, so that no later post attempts a push to it.      *)
C15_FailedPushEvicts ==
    [][\A h \in Posts :
          Len(posts'[h].pushes) > Len(posts[h].pushes) =>
             LET push == posts'[h].pushes[Len(posts'[h].pushes)]
             IN  ~push.ok =>
                    push.ws \notin RegisteredFor(open_feed_connections',
                                                 posts'[h].req.chat)]_vars

(* C16: the registry holds open connections only: once the transport of a *)
(* registered websocket is closed (the client went away, a packet raised   *)
(* in the handler, or the server closed it after rejecting a later auth    *)
(* packet), the websocket is no longer a value of the registry.            *)
C16_RegistryHoldsOpenOnly ==
    \A c \in DOMAIN open_feed_connections :
        \A w \in RegisteredFor(open_feed_connections, c) : conn[w].state = "open"

(* C17: an auth packet with the key of a signed-in user is accepted (the  *)
(* websocket is registered) exactly when that user is in the members of    *)
(* the chat as stored at the moment the packet is processed: a user        *)
(* removed since the connection was opened is rejected, a user added since *)
(* is accepted.                                                            *)
C17_HandshakeUsesCurrentMembers ==
    [][\A w \in Conns :
          (AuthPacketOn(w) /\ last'.ws = w /\ last'.key \in DOMAIN apikeys
             /\ conn[w].chat \in DOMAIN chats) =>
          (last'.error = "" <=>
              InList(apikeys[last'.key]._id, chats[conn[w].chat].members))]_vars

(* C18: every push of a livemsg packet is made for a user who was in the   *)
(* members of the chat when the message was posted; a user removed by      *)
(* remove_from_chat gets no message that is posted afterwards.             *)
C18_PushesToMembersOnly ==
    [][\A h \in Posts :
          Len(posts'[h].pushes) > Len(posts[h].pushes) =>
             LET d == open_feed_connections[posts'[h].req.chat]
             IN  InList(d[posts'[h].pos].user, posts'[h].members)]_vars

(* C19: the content of every livemsg packet that is pushed equals the      *)
(* content stored in message_history for its message, the trimmed content, *)
(* also when the content posted has leading or trailing whitespace.        *)
C19_FrameCarriesStoredContent ==
    [][\A w \in Conns :
          (Len(conn'[w].sent) > Len(conn[w].sent)
             /\ IsLiveMsg(conn'[w].sent[Len(conn'[w].sent)])) =>
          LET packet == conn'[w].sent[Len(conn'[w].sent)]
              stored == chats'[conn'[w].chat].message_history[packet.entry]
          IN  /\ packet.content = stored.content
              /\ packet.content = Strip(packet.content)]_vars

(* C20: no invitation is lost.  Every add_to_chat that is answered with   *)
(* success leaves its invitee in members and the chat in the chats of the  *)
(* invitee, and keeps every member and every chats entry there was: so     *)
(* after two successful calls of the owner for two invitees, in whichever  *)
(* order the event loop ran them, both invitees are members.               *)
C20_NoLostInvitation ==
    [][(last' # last /\ last'.op = "add_to_chat" /\ last'.error = "") =>
          LET c == last'.chat
          IN  /\ InList(last'.user, chats'[c].members)
              /\ InList(c, users'[last'.user].chats)
              /\ \A u \in DOMAIN users :
                    /\ InList(u, chats[c].members) => InList(u, chats'[c].members)
                    /\ InList(c, users[u].chats) => InList(c, users'[u].chats)]_vars

\* the owner has invited two users, one call after the other succeeded, and
\* both are members with the chat in their chats
C20_Witness ==
    /\ last.op = "add_to_chat" /\ last.error = ""
    /\ \E u, v \in DOMAIN users :
          /\ u # v /\ u # chats[last.chat].owner /\ v # chats[last.chat].owner
          /\ v = last.user
          /\ InList(u, chats[last.chat].members) /\ InList(v, chats[last.chat].members)
          /\ InList(last.chat, users[u].chats) /\ InList(last.chat, users[v].chats)

====
